---- MODULE Spec2Model ----
(***************************************************************************)
(* State machine of the CEDA status Slack bot (ceda_status_slack_bot/app.py)*)
(* The process-wide state is the four module globals of app.py; the remote *)
(* document on GitHub and the modal each Slack user currently has open are *)
(* the environment the handlers read their inputs from.                    *)
(***************************************************************************)
EXTENDS Integers, Sequences, FiniteSets, TLC

VARIABLES
    global_statuses,      \* app.py:22  the list being edited, or None
    original_statuses,    \* app.py:25  copy taken at the last successful load, or None
    has_unsaved_changes,  \* app.py:23  flag written by the handlers, read by nobody
    working_copies,       \* app.py:24  dict: service index -> draft of that service
    remote,               \* status.json on GitHub
    baseline_remote,      \* history: the remote document the last successful load read
    github_token,         \* os.environ["GITHUB_TOKEN"] is set
    views,                \* per Slack user: the modal that user has open
    last,                 \* the request handled last and what the handler answered
    steps                 \* number of requests handled so far

vars == <<global_statuses, original_statuses, has_unsaved_changes, working_copies,
          remote, baseline_remote, github_token, views, last, steps>>

-----------------------------------------------------------------------------
(* Bounds of the model *)

MaxRecords == 2
MaxUpdates == 2
MaxOps == 6
ManyUpdates == 11

-----------------------------------------------------------------------------
(* Python values *)

None == [some |-> FALSE, val |-> <<>>, alias |-> FALSE]
Some(x) == [some |-> TRUE, val |-> x, alias |-> FALSE]

\* the mutant of DeepCopy: the same list object under a second name
SameObject(x) == [some |-> TRUE, val |-> x, alias |-> TRUE]
\* copy.deepcopy(global_statuses): a new object that shares nothing
DeepCopy(x) == [some |-> TRUE, val |-> x, alias |-> FALSE]

\* the list original_statuses names: global_statuses' own list while aliased
Deref(o, g) == IF o.alias THEN g.val ELSE o.val

\* Python list indexing: s[i] is defined for -len(s) <= i < len(s)
PyInRange(s, i) == -Len(s) <= i /\ i < Len(s)
PyPos(s, i) == IF i >= 0 THEN i + 1 ELSE Len(s) + i + 1

\* the mutants of Pop: the last element goes, the first element goes
PopLast(s, i) == [k \in 1..(Len(s) - 1) |-> s[k]]
PopFirst(s, i) == [k \in 1..(Len(s) - 1) |-> s[k + 1]]

\* list.pop(i)
Pop(s, i) == [k \in 1..(Len(s) - 1) |-> IF k < PyPos(s, i) THEN s[k] ELSE s[k + 1]]

\* the mutants of DictDel: every key goes, no key goes
DictClear(d, k) == [x \in {} |-> 0]
DictKeep(d, k) == d

\* d[k] = v on a dict; del d[k]
DictPut(d, k, v) == [x \in (DOMAIN d) \cup {k} |-> IF x = k THEN v ELSE d[x]]
DictDel(d, k) == [x \in (DOMAIN d) \ {k} |-> d[x]]
EmptyDict == [x \in {} |-> 0]

-----------------------------------------------------------------------------
(* The vocabulary of field values *)

D1 == "2024-05-20T10:00"
BadDate == "2024-13-40T10:00"
GoodUrl == "https://example.com"
BadUrl == "ftp://example.com"

\* re.match(r"^\d{4}-\d{2}-\d{2}T\d{2}:\d{2}$", s) on the vocabulary
MatchesDatePattern(s) == s \in {D1, BadDate}
\* datetime.strptime(s, "%Y-%m-%dT%H:%M") does not raise
StrptimeOk(s) == s \in {D1}

validate_date_format(date_str) ==
    IF ~MatchesDatePattern(date_str)
    THEN [ok |-> FALSE, msg |-> "Date must be in format YYYY-MM-DDThh:mm"]
    ELSE IF StrptimeOk(date_str)
         THEN [ok |-> TRUE, msg |-> ""]
         ELSE [ok |-> FALSE, msg |-> "Invalid date or time"]

\* re.match(r"^https?://(?:[-\w.]|(?:%[\da-fA-F]{2}))+", s) on the vocabulary
MatchesUrlPattern(s) == s \in {GoodUrl}

validate_url(url) ==
    IF url = "" THEN [ok |-> TRUE, msg |-> ""]
    ELSE IF ~MatchesUrlPattern(url)
         THEN [ok |-> FALSE, msg |-> "Please enter a valid URL"]
         ELSE [ok |-> TRUE, msg |-> ""]

-----------------------------------------------------------------------------
(* Service records, and the documents the remote file takes *)

RA == [status |-> "Down", affectedServices |-> "API", summary |-> "outage",
       date |-> D1, updates |-> <<[date |-> D1, details |-> "ongoing"]>>]
RB == [status |-> "down", affectedServices |-> "DB", summary |-> "slow",
       date |-> D1, updates |-> <<[date |-> D1, details |-> "ongoing"]>>]

RemoteDocs == {<<>>, <<RA>>, <<RA, RB>>}

\* the options of the status select: the text shown and the value behind it
Option(text) ==
    [text |-> text,
     value |-> CASE text = "Resolved" -> "resolved"
                 [] text = "Degraded" -> "degraded"
                 [] text = "Down" -> "down"
                 [] OTHER -> "at risk"]

\* str.lower() on the status vocabulary
Lower(s) ==
    CASE s \in {"Resolved", "resolved"} -> "resolved"
      [] s \in {"Degraded", "degraded"} -> "degraded"
      [] s \in {"Down", "down"} -> "down"
      [] s \in {"At Risk", "at risk"} -> "at risk"
      [] OTHER -> s

\* the option create_service_detail_blocks preselects for a stored status
\* ("w in status_text" is equality on the lowered vocabulary)
MappedStatus(status) ==
    LET status_text == Lower(status) IN
    IF status_text = "degraded" THEN Option("Degraded")
    ELSE IF status_text = "down" THEN Option("Down")
    ELSE IF status_text = "at risk" THEN Option("At Risk")
    ELSE Option("Resolved")

\* update.get("url", "")
UrlOf(update) == IF "url" \in DOMAIN update THEN update.url ELSE ""

\* the input blocks of the detail view with their initial values
create_service_detail_blocks(service) ==
    [name |-> service.affectedServices,
     status |-> MappedStatus(service.status),
     date |-> service.date,
     summary |-> service.summary,
     updates |-> [j \in 1..Len(service.updates) |->
                    [date |-> service.updates[j].date,
                     details |-> service.updates[j].details,
                     url |-> UrlOf(service.updates[j])]]]

\* the template of handle_add_service and handle_add_update
EmptyService ==
    [status |-> "resolved", affectedServices |-> "", summary |-> "", date |-> "",
     updates |-> <<>>]

NewUpdate == [date |-> "", details |-> "", url |-> ""]

NoForm == [name |-> "", status |-> Option("Resolved"), date |-> "", summary |-> "",
           updates |-> <<>>]

NoView == [kind |-> "none", idx |-> 0, rows |-> 0, reset |-> FALSE, form |-> NoForm]
DoneView == [kind |-> "done", idx |-> 0, rows |-> 0, reset |-> FALSE, form |-> NoForm]

\* the service list modal: one Edit and one Delete button per row, the Reset
\* button only when has_changes() held at rendering
ListView(statuses, dirty) ==
    [kind |-> "list", idx |-> 0, rows |-> Len(statuses), reset |-> dirty, form |-> NoForm]

\* the detail modal: callback edit_service_modal or add_service_modal,
\* private_metadata "<idx>:0"
DetailView(kind, idx, service) ==
    [kind |-> kind, idx |-> idx, rows |-> 0, reset |-> FALSE,
     form |-> create_service_detail_blocks(service)]

-----------------------------------------------------------------------------
(* has_changes: comparison by JSON text *)

RECURSIVE Flatten(_)
Flatten(ss) == IF ss = <<>> THEN <<>> ELSE Head(ss) \o Flatten(Tail(ss))

\* the mutant of DumpUpdate: the url is left out
DumpUpdateNoUrl(u) == <<"{", "date", u.date, "details", u.details, "}">>

\* json.dumps(update, sort_keys=True) as its sequence of tokens
DumpUpdate(u) ==
    <<"{", "date", u.date, "details", u.details>>
    \o (IF "url" \in DOMAIN u THEN <<"url", u.url>> ELSE <<>>) \o <<"}">>

DumpService(s) ==
    <<"{", "affectedServices", s.affectedServices, "date", s.date,
      "status", s.status, "summary", s.summary, "updates", "[">>
    \o Flatten([j \in 1..Len(s.updates) |-> DumpUpdate(s.updates[j])])
    \o <<"]", "}">>

JsonDumps(statuses) ==
    <<"[">> \o Flatten([i \in 1..Len(statuses) |-> DumpService(statuses[i])]) \o <<"]">>

\* the mutant of HasChangesOf: the length check alone
HasChangesByLength(g, o) ==
    IF ~o.some \/ ~g.some THEN FALSE
    ELSE Len(g.val) # Len(Deref(o, g))

HasChangesOf(g, o) ==
    IF ~o.some \/ ~g.some THEN FALSE
    ELSE IF Len(g.val) # Len(Deref(o, g)) THEN TRUE
    ELSE JsonDumps(g.val) # JsonDumps(Deref(o, g))

has_changes == HasChangesOf(global_statuses, original_statuses)

-----------------------------------------------------------------------------------------------------------------------------------------------------
(* load_status_data and get_status_data.  st is the globals when the call   *)
(* is made, net the outcome of the HTTP request; the result is the globals  *)
(* after the call, the list returned (ret) and whether a load ran (load).   *)

Globals ==
    [g |-> global_statuses, o |-> original_statuses, u |-> has_unsaved_changes,
     b |-> baseline_remote]

Net == {"ok", "fail"}

\* the mutant of load_status_data: the baseline is the same object, not a copy
load_status_data_alias(st, net) ==
    IF net = "ok"
    THEN [g |-> Some(remote), o |-> SameObject(remote), u |-> FALSE, b |-> remote,
          ret |-> remote, load |-> "ok"]
    ELSE [g |-> st.g, o |-> st.o, u |-> st.u, b |-> st.b, ret |-> <<>>, load |-> "fail"]

load_status_data(st, net) ==
    IF net = "ok"
    THEN [g |-> Some(remote), o |-> DeepCopy(remote), u |-> FALSE, b |-> remote,
          ret |-> remote, load |-> "ok"]
    ELSE [g |-> st.g, o |-> st.o, u |-> st.u, b |-> st.b, ret |-> <<>>, load |-> "fail"]

get_status_data(st, net) ==
    IF ~st.g.some
    THEN load_status_data(st, net)
    ELSE [g |-> st.g, o |-> st.o, u |-> st.u, b |-> st.b, ret |-> st.g.val,
          load |-> "none"]

SetGlobals(r) ==
    /\ global_statuses' = r.g
    /\ original_statuses' = r.o
    /\ has_unsaved_changes' = r.u
    /\ baseline_remote' = r.b

-----------------------------------------------------------------------------
(* What a handler answers: the acknowledgement, the message posted, the     *)
(* validation errors, and the requests it made                              *)

NoTyped ==
    [main |-> [name |-> "", status |-> Option("Resolved"), date |-> "", summary |-> ""],
     updates |-> <<>>]

\* typed: the form values of a submission; errors: the handler's errors dict;
\* load: how the last load_status_data() of the handler ended; listed: the
\* number of services shown (-1: no list shown); gets, puts: requests made to
\* the GitHub contents API; index: the index the pressed button carries in
\* its value (-2: none)
Answer(op, user, result, reply) ==
    [op |-> op, user |-> user, result |-> result, reply |-> reply, typed |-> NoTyped,
     errors |-> EmptyDict, load |-> "none", listed |-> -1, gets |-> 0, puts |-> 0,
     index |-> -2]

AUTHORISED_USERS == {"u1", "u2"}

-----------------------------------------------------------------------------
(* /ceda-status and /ceda-status-edit *)

ceda_status_command(user, net) ==
    LET r == get_status_data(Globals, net) IN
    /\ SetGlobals(r)
    /\ last' = [Answer("ceda_status_command", user, "ok", "list")
                  EXCEPT !.load = r.load, !.listed = Len(r.ret)]
    /\ UNCHANGED <<working_copies, remote, github_token, views>>

open_edit_modal(user, net) ==
    IF user \notin AUTHORISED_USERS
    THEN /\ last' = Answer("open_edit_modal", user, "unauthorised", "error")
         /\ UNCHANGED <<global_statuses, original_statuses, has_unsaved_changes,
                        baseline_remote, working_copies, remote, github_token, views>>
    ELSE LET r == get_status_data(Globals, net) IN
         /\ SetGlobals(r)
         /\ views' = [views EXCEPT ![user] = ListView(r.ret, HasChangesOf(r.g, r.o))]
         /\ last' = [Answer("open_edit_modal", user, "ok", "none")
                       EXCEPT !.load = r.load, !.listed = Len(r.ret)]
         /\ UNCHANGED <<working_copies, remote, github_token>>

\* handle_back_to_list, run at the end of other handlers: the view it renders
\* and the globals after its get_status_data()
handle_back_to_list(st, net) ==
    LET r == get_status_data(st, net) IN
    [r |-> r, view |-> ListView(r.ret, HasChangesOf(r.g, r.o))]

-----------------------------------------------------------------------------
(* The detail view: edit, add service, add update, delete update, back *)

\* show_service_details, called by handle_edit_service with the row's index
handle_edit_service(user, service_index, net) ==
    /\ views[user].kind = "list"
    /\ service_index \in 0..(views[user].rows - 1)
    /\ LET wc == DictDel(working_copies, service_index)
           r == get_status_data(Globals, net)
           g == IF global_statuses.some THEN global_statuses ELSE Some(r.ret)
           st == IF global_statuses.some THEN Globals
                 ELSE [g |-> g, o |-> r.o, u |-> r.u, b |-> r.b]
           ld == IF global_statuses.some THEN "none" ELSE r.load
       IN
       /\ working_copies' = wc
       /\ SetGlobals(st)
       /\ IF service_index < Len(g.val)
          THEN /\ views' = [views EXCEPT ![user] =
                              DetailView("edit", service_index, g.val[service_index + 1])]
               /\ last' = [Answer("handle_edit_service", user, "ok", "none")
                             EXCEPT !.load = ld, !.index = service_index]
          ELSE /\ views' = views
               /\ last' = [Answer("handle_edit_service", user, "exception", "none")
                             EXCEPT !.load = ld, !.index = service_index]
    /\ UNCHANGED <<remote, github_token>>

\* the mutant of handle_add_service: an older draft of a new service is kept
handle_add_service_keeps(user) ==
    /\ views[user].kind = "list"
    /\ views' = [views EXCEPT ![user] = DetailView("add", -1, EmptyService)]
    /\ last' = Answer("handle_add_service", user, "ok", "none")
    /\ UNCHANGED <<global_statuses, original_statuses, has_unsaved_changes,
                   baseline_remote, working_copies, remote, github_token>>

\* the mutant of handle_add_service: the empty template is put into the list
\* as soon as the form opens
handle_add_service_inserts(user) ==
    /\ views[user].kind = "list"
    /\ working_copies' = DictDel(working_copies, -1)
    /\ views' = [views EXCEPT ![user] = DetailView("add", -1, EmptyService)]
    /\ last' = Answer("handle_add_service", user, "ok", "none")
    /\ global_statuses' = IF global_statuses.some
                          THEN [global_statuses EXCEPT !.val = Append(@, EmptyService)]
                          ELSE global_statuses
    /\ UNCHANGED <<original_statuses, has_unsaved_changes, baseline_remote, remote,
                   github_token>>

handle_add_service(user) ==
    /\ views[user].kind = "list"
    /\ working_copies' = DictDel(working_copies, -1)
    /\ views' = [views EXCEPT ![user] = DetailView("add", -1, EmptyService)]
    /\ last' = Answer("handle_add_service", user, "ok", "none")
    /\ UNCHANGED <<global_statuses, original_statuses, has_unsaved_changes,
                   baseline_remote, remote, github_token>>

\* what the user has typed into the main fields of a detail view when a
\* button is pressed or the form is submitted
TypedMain(form) ==
    LET keep == [name |-> form.name, status |-> form.status, date |-> form.date,
                 summary |-> form.summary]
    IN {keep,
        [keep EXCEPT !.status = Option("Resolved")],
        [keep EXCEPT !.name = "", !.summary = "", !.date = BadDate]}
       \cup (IF form.name = ""
             THEN {[name |-> "Web", status |-> Option("Degraded"), date |-> D1,
                    summary |-> "slow"]}
             ELSE {})

TypedUpdateChoices ==
    {[date |-> D1, details |-> "fixed", url |-> GoodUrl],
     [date |-> D1, details |-> "", url |-> ""],
     [date |-> BadDate, details |-> "fixed", url |-> BadUrl]}

\* one typed update per update block of the view: every block left as shown,
\* every block retyped alike, or one block retyped
TypedUpdates(form) ==
    LET n == Len(form.updates) IN
    {form.updates}
    \cup {[j \in 1..n |-> c] : c \in TypedUpdateChoices}
    \cup {[form.updates EXCEPT ![j] = c] : j \in 1..n, c \in TypedUpdateChoices}

\* the draft a button of the detail view works on when the index is not -1:
\* the stored draft, else service.copy() of global_statuses[service_index] with
\* its updates copied one by one; found is FALSE where the subscript raises
DraftOrCopy(service_index) ==
    IF service_index \in DOMAIN working_copies
    THEN [found |-> TRUE, copy |-> working_copies[service_index]]
    ELSE IF global_statuses.some /\ PyInRange(global_statuses.val, service_index)
         THEN [found |-> TRUE,
               copy |-> global_statuses.val[PyPos(global_statuses.val, service_index)]]
         ELSE [found |-> FALSE, copy |-> EmptyService]

\* the mutant of AddUpdateBase: the draft of a new service is always rebuilt
\* from the form
AddUpdateBaseRebuilds(service_index, typed) ==
    IF service_index = -1
    THEN [found |-> TRUE,
          copy |-> [status |-> typed.status.value, affectedServices |-> typed.name,
                    summary |-> typed.summary, date |-> typed.date,
                    updates |-> <<>>]]
    ELSE DraftOrCopy(service_index)

\* the draft handle_add_update starts from
AddUpdateBase(service_index, typed) ==
    IF service_index = -1
    THEN IF -1 \notin DOMAIN working_copies \/ working_copies[-1].updates = <<>>
         THEN [found |-> TRUE,
               copy |-> [status |-> typed.status.value, affectedServices |-> typed.name,
                         summary |-> typed.summary, date |-> typed.date,
                         updates |-> <<>>]]
         ELSE [found |-> TRUE, copy |-> working_copies[-1]]
    ELSE DraftOrCopy(service_index)

UnchangedByDraftButtons ==
    UNCHANGED <<global_statuses, original_statuses, has_unsaved_changes,
                baseline_remote, remote, github_token>>

handle_add_update(user, typed) ==
    /\ views[user].kind \in {"edit", "add"}
    /\ LET service_index == views[user].idx
           base == AddUpdateBase(service_index, typed)
       IN
       IF ~base.found
       THEN /\ last' = Answer("handle_add_update", user, "exception", "error")
            /\ UNCHANGED <<working_copies, views>>
       ELSE /\ Len(base.copy.updates) < MaxUpdates
            /\ LET working_copy ==
                     [base.copy EXCEPT !.updates = Append(@, NewUpdate)]
               IN
               /\ working_copies' = DictPut(working_copies, service_index, working_copy)
               /\ views' = [views EXCEPT ![user] =
                              DetailView(IF service_index = -1 THEN "add" ELSE "edit",
                                         service_index, working_copy)]
               /\ last' = Answer("handle_add_update", user, "ok", "none")
    /\ UnchangedByDraftButtons

\* "update_index < len(working_copy["updates"])" before the pop
UpdateExists(working_copy, update_index) == update_index < Len(working_copy.updates)

handle_delete_update(user, update_index) ==
    /\ views[user].kind \in {"edit", "add"}
    /\ update_index \in 0..(Len(views[user].form.updates) - 1)
    /\ LET service_index == views[user].idx
           base == DraftOrCopy(service_index)
       IN
       IF ~base.found
       THEN /\ last' = [Answer("handle_delete_update", user, "exception", "error")
                          EXCEPT !.index = update_index]
            /\ UNCHANGED <<working_copies, views>>
       ELSE IF UpdateExists(base.copy, update_index)
            THEN LET working_copy ==
                       [base.copy EXCEPT !.updates = Pop(@, update_index)]
                 IN
                 /\ working_copies' = DictPut(working_copies, service_index, working_copy)
                 /\ views' = [views EXCEPT ![user] =
                                DetailView("edit", service_index, working_copy)]
                 /\ last' = [Answer("handle_delete_update", user, "ok", "none")
                               EXCEPT !.index = update_index]
            ELSE /\ last' = [Answer("handle_delete_update", user, "not_found", "error")
                               EXCEPT !.index = update_index]
                 /\ UNCHANGED <<working_copies, views>>
    /\ UnchangedByDraftButtons

handle_back_to_list_from_service(user, net) ==
    /\ views[user].kind \in {"edit", "add"}
    /\ LET back == handle_back_to_list(Globals, net) IN
       /\ working_copies' = DictDel(working_copies, -1)
       /\ SetGlobals(back.r)
       /\ views' = [views EXCEPT ![user] = back.view]
       /\ last' = [Answer("handle_back_to_list_from_service", user, "ok", "none")
                     EXCEPT !.load = back.r.load, !.listed = Len(back.r.ret)]
    /\ UNCHANGED <<remote, github_token>>

-----------------------------------------------------------------------------
(* Form submission: handle_edit_service_submission, handle_add_service_submission *)

\* str(j) for j < 100, as its digits
Digits(j) == IF j < 10 THEN <<j>> ELSE <<j \div 10, j % 10>>

\* str(a) < str(b), the order sorted() puts the update indices in
StrLess(a, b) ==
    LET da == Digits(a)
        db == Digits(b)
    IN IF da[1] # db[1] THEN da[1] < db[1]
       ELSE IF Len(da) = 1 THEN Len(db) = 2
       ELSE IF Len(db) = 1 THEN FALSE
       ELSE da[2] < db[2]

\* sorted(update_blocks.keys()) for the blocks update_0 .. update_{n-1}
SortedUpdateKeys(n) ==
    [p \in 1..n |->
       CHOOSE j \in 0..(n - 1) : Cardinality({k \in 0..(n - 1) : StrLess(k, j)}) = p - 1]

Block(name) == <<name, -1>>
UpdateBlock(name, j) == <<name, j>>

\* the loop over the update blocks: acc holds the errors and the updates so far
RECURSIVE ProcessUpdates(_, _, _)
ProcessUpdates(keys, typed_updates, acc) ==
    IF keys = <<>> THEN acc
    ELSE LET j == Head(keys)
             t == typed_updates[j + 1]
             dv == validate_date_format(t.date)
             uv == validate_url(t.url)
         IN
         IF ~dv.ok
         THEN ProcessUpdates(Tail(keys), typed_updates,
                [acc EXCEPT !.errors = DictPut(@, UpdateBlock("update_date", j), dv.msg)])
         ELSE IF t.url # "" /\ ~uv.ok
         THEN ProcessUpdates(Tail(keys), typed_updates,
                [acc EXCEPT !.errors = DictPut(@, UpdateBlock("update_url", j), uv.msg)])
         ELSE ProcessUpdates(Tail(keys), typed_updates,
                [acc EXCEPT !.updates =
                   Append(@, IF t.url # ""
                             THEN [date |-> t.date, details |-> t.details, url |-> t.url]
                             ELSE [date |-> t.date, details |-> t.details])])

\* the service built from the form and the errors found in it
ValidateSubmission(typed) ==
    LET dv == validate_date_format(typed.main.date)
        e0 == IF dv.ok THEN EmptyDict ELSE DictPut(EmptyDict, Block("service_date"), dv.msg)
        acc == ProcessUpdates(SortedUpdateKeys(Len(typed.updates)), typed.updates,
                              [errors |-> e0, updates |-> <<>>])
        e1 == IF acc.updates = <<>>
              THEN DictPut(acc.errors, Block("service_summary"),
                           "At least one update is required")
              ELSE acc.errors
        e2 == IF typed.main.name = ""
              THEN DictPut(e1, Block("service_name"), "Service name cannot be empty")
              ELSE e1
        e3 == IF typed.main.summary = ""
              THEN DictPut(e2, Block("service_summary"), "Summary cannot be empty")
              ELSE e2
    IN [errors |-> e3,
        service |-> [status |-> typed.main.status.text,
                     affectedServices |-> typed.main.name,
                     summary |-> typed.main.summary,
                     date |-> typed.main.date,
                     updates |-> acc.updates]]

\* the form exactly as the detail view showed it
ShownForm(view) ==
    [main |-> [name |-> view.form.name, status |-> view.form.status,
               date |-> view.form.date, summary |-> view.form.summary],
     updates |-> view.form.updates]

TypedForms(form) ==
    {[main |-> m, updates |-> us] : m \in TypedMain(form), us \in TypedUpdates(form)}

\* the mutant of HasErrors: the early return on errors is never taken
HasErrorsNever(errors) == FALSE

\* "if errors:" before the form is acknowledged with its errors
HasErrors(errors) == errors # EmptyDict

\* the mutant of StoreService: the record goes to the end of the list
StoreServiceLast(statuses, service_index, service) ==
    [k \in 1..Len(statuses) |-> IF k = Len(statuses) THEN service ELSE statuses[k]]

\* global_statuses[service_index] = updated_service
StoreService(statuses, service_index, service) ==
    [k \in 1..Len(statuses) |->
       IF k = PyPos(statuses, service_index) THEN service ELSE statuses[k]]

StoreRaisesUnloaded(statuses, service_index) == ~statuses.some

\* global_statuses[service_index] = updated_service raises: TypeError on None,
\* IndexError on an index outside the list
StoreRaises(statuses, service_index) ==
    ~statuses.some \/ ~PyInRange(statuses.val, service_index)

handle_edit_service_submission(user, typed, trigger_id) ==
    /\ views[user].kind = "edit"
    /\ LET service_index == views[user].idx
           v == ValidateSubmission(typed)
       IN
       IF HasErrors(v.errors)
       THEN /\ last' = [Answer("handle_edit_service_submission", user, "errors", "errors")
                          EXCEPT !.errors = v.errors, !.typed = typed,
                                 !.index = service_index]
            /\ UNCHANGED <<global_statuses, has_unsaved_changes, working_copies, views>>
       ELSE IF StoreRaises(global_statuses, service_index)
       THEN /\ last' = [Answer("handle_edit_service_submission", user, "exception", "error")
                          EXCEPT !.typed = typed, !.index = service_index]
            /\ views' = [views EXCEPT ![user] = NoView]
            /\ UNCHANGED <<global_statuses, has_unsaved_changes, working_copies>>
       ELSE /\ global_statuses' =
                 [global_statuses EXCEPT !.val = StoreService(@, service_index, v.service)]
            /\ has_unsaved_changes' = TRUE
            /\ working_copies' = DictDel(working_copies, service_index)
            /\ views' = [views EXCEPT ![user] = NoView]
            /\ last' = [Answer("handle_edit_service_submission", user, "stored",
                               IF trigger_id THEN "error" ELSE "success")
                          EXCEPT !.errors = v.errors, !.typed = typed,
                                 !.index = service_index]
    /\ UNCHANGED <<original_statuses, baseline_remote, remote, github_token>>

handle_add_service_submission(user, typed, trigger_id) ==
    /\ views[user].kind = "add"
    /\ LET v == ValidateSubmission(typed) IN
       IF HasErrors(v.errors)
       THEN /\ last' = [Answer("handle_add_service_submission", user, "errors", "errors")
                          EXCEPT !.errors = v.errors, !.typed = typed, !.index = -1]
            /\ UNCHANGED <<global_statuses, has_unsaved_changes, working_copies, views>>
       ELSE IF ~global_statuses.some
       THEN /\ last' = [Answer("handle_add_service_submission", user, "exception", "error")
                          EXCEPT !.typed = typed, !.index = -1]
            /\ views' = [views EXCEPT ![user] = NoView]
            /\ UNCHANGED <<global_statuses, has_unsaved_changes, working_copies>>
       ELSE /\ Len(global_statuses.val) < MaxRecords
            /\ global_statuses' = [global_statuses EXCEPT !.val = Append(@, v.service)]
            /\ has_unsaved_changes' = TRUE
            /\ working_copies' = DictDel(working_copies, -1)
            /\ views' = [views EXCEPT ![user] = NoView]
            /\ last' = [Answer("handle_add_service_submission", user, "stored",
                               IF trigger_id THEN "error" ELSE "success")
                          EXCEPT !.errors = v.errors, !.typed = typed, !.index = -1]
    /\ UNCHANGED <<original_statuses, baseline_remote, remote, github_token>>

-----------------------------------------------------------------------------
(* The list view: delete, reset, submit *)

\* the mutant of handle_delete_service: an index past the end removes the
\* last service
handle_delete_service_clamps(user, service_index) ==
    /\ views[user].kind = "list"
    /\ service_index \in 0..(views[user].rows - 1)
    /\ IF ~global_statuses.some \/ global_statuses.val = <<>>
       THEN /\ last' = [Answer("handle_delete_service", user, "exception", "error")
                          EXCEPT !.index = service_index]
            /\ UNCHANGED <<global_statuses, original_statuses, has_unsaved_changes,
                           baseline_remote, working_copies, views>>
       ELSE LET st == [g |-> [global_statuses EXCEPT !.val = PopLast(@, service_index)],
                       o |-> original_statuses, u |-> TRUE, b |-> baseline_remote]
                back == handle_back_to_list(st, "ok")
            IN
            /\ SetGlobals(back.r)
            /\ working_copies' = DictDel(working_copies, service_index)
            /\ views' = [views EXCEPT ![user] = back.view]
            /\ last' = [Answer("handle_delete_service", user, "ok", "none")
                          EXCEPT !.listed = Len(back.r.ret), !.index = service_index]
    /\ UNCHANGED <<remote, github_token>>

handle_delete_service(user, service_index) ==
    /\ views[user].kind = "list"
    /\ service_index \in 0..(views[user].rows - 1)
    /\ IF ~global_statuses.some \/ ~PyInRange(global_statuses.val, service_index)
       THEN /\ last' = [Answer("handle_delete_service", user, "exception", "error")
                          EXCEPT !.index = service_index]
            /\ UNCHANGED <<global_statuses, original_statuses, has_unsaved_changes,
                           baseline_remote, working_copies, views>>
       ELSE LET st == [g |-> [global_statuses EXCEPT !.val = Pop(@, service_index)],
                       o |-> original_statuses, u |-> TRUE, b |-> baseline_remote]
                back == handle_back_to_list(st, "ok")
            IN
            /\ SetGlobals(back.r)
            /\ working_copies' = DictDel(working_copies, service_index)
            /\ views' = [views EXCEPT ![user] = back.view]
            /\ last' = [Answer("handle_delete_service", user, "ok", "none")
                          EXCEPT !.listed = Len(back.r.ret), !.index = service_index]
    /\ UNCHANGED <<remote, github_token>>

\* the mutant of handle_reset_changes: the drafts are kept
handle_reset_changes_keeps(user, net, net2) ==
    /\ views[user].kind = "list"
    /\ views[user].reset
    /\ LET r == load_status_data(Globals, net)
           back == handle_back_to_list([g |-> r.g, o |-> r.o, u |-> r.u, b |-> r.b], net2)
       IN
       /\ SetGlobals(back.r)
       /\ views' = [views EXCEPT ![user] = back.view]
       /\ last' = [Answer("handle_reset_changes", user, "ok", "none")
                     EXCEPT !.load = IF back.r.load = "none" THEN r.load ELSE back.r.load,
                            !.listed = Len(back.r.ret)]
    /\ UNCHANGED <<working_copies, remote, github_token>>

\* net is the outcome of the reload, net2 of the load handle_back_to_list makes
\* when global_statuses is still None after it
handle_reset_changes(user, net, net2) ==
    /\ views[user].kind = "list"
    /\ views[user].reset
    /\ LET r == load_status_data(Globals, net)
           back == handle_back_to_list([g |-> r.g, o |-> r.o, u |-> r.u, b |-> r.b], net2)
       IN
       /\ SetGlobals(back.r)
       /\ working_copies' = EmptyDict
       /\ views' = [views EXCEPT ![user] = back.view]
       /\ last' = [Answer("handle_reset_changes", user, "ok", "none")
                     EXCEPT !.load = IF back.r.load = "none" THEN r.load ELSE back.r.load,
                            !.listed = Len(back.r.ret)]
    /\ UNCHANGED <<remote, github_token>>

GitHub == {"get_raised", "get_failed", "put_failed", "ok"}

\* the mutant of NothingToSubmit: the check for changes is skipped
NothingToSubmitNever == FALSE

\* "if not has_changes():" at the head of handle_submit_changes
NothingToSubmit == ~has_changes

\* the mutant of handle_submit_changes: the flag is reset before the requests
\* are made, and a refused PUT is sent once more
handle_submit_changes_early(user, github) ==
    /\ views[user].kind = "list"
    /\ IF NothingToSubmit
       THEN /\ last' = Answer("handle_submit_changes", user, "no_changes", "info")
            /\ UNCHANGED <<has_unsaved_changes, remote, views>>
       ELSE IF ~github_token
       THEN /\ last' = Answer("handle_submit_changes", user, "no_token", "error")
            /\ UNCHANGED <<has_unsaved_changes, remote, views>>
       ELSE IF github \in {"get_raised", "get_failed"}
       THEN /\ last' = [Answer("handle_submit_changes", user,
                               IF github = "get_raised" THEN "exception" ELSE github,
                               "error")
                          EXCEPT !.gets = 1]
            /\ has_unsaved_changes' = FALSE
            /\ UNCHANGED <<remote, views>>
       ELSE IF github = "put_failed"
       THEN /\ last' = [Answer("handle_submit_changes", user, "put_failed", "error")
                          EXCEPT !.gets = 1, !.puts = 2]
            /\ has_unsaved_changes' = FALSE
            /\ UNCHANGED <<remote, views>>
       ELSE /\ remote' = global_statuses.val
            /\ has_unsaved_changes' = FALSE
            /\ views' = [views EXCEPT ![user] = DoneView]
            /\ last' = [Answer("handle_submit_changes", user, "ok", "success")
                          EXCEPT !.gets = 1, !.puts = 1]
    /\ UNCHANGED <<global_statuses, original_statuses, baseline_remote, working_copies,
                   github_token>>

\* github is how the two requests to the contents API end: the GET raises
\* requests.RequestException, the GET answers another status than 200, the
\* PUT answers another status than 200 or 201, or both succeed
ContentWithDrafts ==
    [k \in 1..Len(global_statuses.val) |->
       IF (k - 1) \in DOMAIN working_copies
       THEN working_copies[k - 1] ELSE global_statuses.val[k]]

\* content = json.dumps(global_statuses, indent=2)
Content == global_statuses.val

handle_submit_changes(user, github) ==
    /\ views[user].kind = "list"
    /\ IF NothingToSubmit
       THEN /\ last' = Answer("handle_submit_changes", user, "no_changes", "info")
            /\ UNCHANGED <<has_unsaved_changes, remote, views>>
       ELSE IF ~github_token
       THEN /\ last' = Answer("handle_submit_changes", user, "no_token", "error")
            /\ UNCHANGED <<has_unsaved_changes, remote, views>>
       ELSE IF github = "get_raised"
       THEN /\ last' = [Answer("handle_submit_changes", user, "exception", "error")
                          EXCEPT !.gets = 1]
            /\ UNCHANGED <<has_unsaved_changes, remote, views>>
       ELSE IF github = "get_failed"
       THEN /\ last' = [Answer("handle_submit_changes", user, "get_failed", "error")
                          EXCEPT !.gets = 1]
            /\ UNCHANGED <<has_unsaved_changes, remote, views>>
       ELSE IF github = "put_failed"
       THEN /\ last' = [Answer("handle_submit_changes", user, "put_failed", "error")
                          EXCEPT !.gets = 1, !.puts = 1]
            /\ UNCHANGED <<has_unsaved_changes, remote, views>>
       ELSE /\ remote' = Content
            /\ has_unsaved_changes' = FALSE
            /\ views' = [views EXCEPT ![user] = DoneView]
            /\ last' = [Answer("handle_submit_changes", user, "ok", "success")
                          EXCEPT !.gets = 1, !.puts = 1]
    /\ UNCHANGED <<global_statuses, original_statuses, baseline_remote, working_copies,
                   github_token>>

-----------------------------------------------------------------------------
(* The environment: another writer of status.json, and a restart of the bot *)

RemoteEdit ==
    /\ \E doc \in RemoteDocs \ {remote} : remote' = doc
    /\ last' = Answer("remote_edit", "github", "ok", "none")
    /\ UNCHANGED <<global_statuses, original_statuses, has_unsaved_changes,
                   baseline_remote, working_copies, github_token, views>>

\* the module-level assignments run again; the modals stay open in Slack
Restart ==
    /\ global_statuses' = None
    /\ original_statuses' = None
    /\ has_unsaved_changes' = FALSE
    /\ working_copies' = EmptyDict
    /\ baseline_remote' = <<>>
    /\ last' = Answer("restart", "host", "ok", "none")
    /\ UNCHANGED <<remote, github_token, views>>

-----------------------------------------------------------------------------
(* The specification *)

Users == {"u1"}

Init ==
    /\ global_statuses = None
    /\ original_statuses = None
    /\ has_unsaved_changes = FALSE
    /\ working_copies = EmptyDict
    /\ remote \in RemoteDocs
    /\ baseline_remote = <<>>
    /\ github_token \in BOOLEAN
    /\ views = [u \in Users |-> NoView]
    /\ last = Answer("start", "host", "ok", "none")
    /\ steps = 0

\* one more request is handled, up to the bound of the model
Tick == steps < MaxOps /\ steps' = steps + 1

Next ==
    \/ \E u \in DOMAIN views, net \in Net : Tick /\ ceda_status_command(u, net)
    \/ \E u \in DOMAIN views, net \in Net : Tick /\ open_edit_modal(u, net)
    \/ \E u \in DOMAIN views, i \in 0..MaxRecords, net \in Net :
          Tick /\ handle_edit_service(u, i, net)
    \/ \E u \in DOMAIN views : Tick /\ handle_add_service(u)
    \/ \E u \in DOMAIN views : \E typed \in TypedMain(views[u].form) :
          Tick /\ handle_add_update(u, typed)
    \/ \E u \in DOMAIN views, j \in 0..MaxUpdates : Tick /\ handle_delete_update(u, j)
    \/ \E u \in DOMAIN views, net \in Net : Tick /\ handle_back_to_list_from_service(u, net)
    \/ \E u \in DOMAIN views, trigger_id \in BOOLEAN :
          \E typed \in TypedForms(views[u].form) :
             Tick /\ handle_edit_service_submission(u, typed, trigger_id)
    \/ \E u \in DOMAIN views, trigger_id \in BOOLEAN :
          \E typed \in TypedForms(views[u].form) :
             Tick /\ handle_add_service_submission(u, typed, trigger_id)
    \/ \E u \in DOMAIN views, i \in 0..MaxRecords : Tick /\ handle_delete_service(u, i)
    \/ \E u \in DOMAIN views, net \in Net, net2 \in Net :
          Tick /\ handle_reset_changes(u, net, net2)
    \/ \E u \in DOMAIN views, github \in GitHub : Tick /\ handle_submit_changes(u, github)
    \/ Tick /\ RemoteEdit
    \/ Tick /\ Restart

Spec == Init /\ [][Next]_vars

-----------------------------------------------------------------------------
(* Two users share the globals of the process *)

UsersTwo == {"u1", "u2"}

InitTwo ==
    /\ global_statuses = None
    /\ original_statuses = None
    /\ has_unsaved_changes = FALSE
    /\ working_copies = EmptyDict
    /\ remote \in RemoteDocs
    /\ baseline_remote = <<>>
    /\ github_token \in BOOLEAN
    /\ views = [u \in UsersTwo |-> NoView]
    /\ last = Answer("start", "host", "ok", "none")
    /\ steps = 0

SpecTwo == InitTwo /\ [][Next]_vars

\* both users have the list open on the loaded document and work on the
\* services and their drafts
InitShared ==
    /\ remote \in {<<RA>>, <<RA, RB>>}
    /\ global_statuses = Some(remote)
    /\ original_statuses = DeepCopy(remote)
    /\ baseline_remote = remote
    /\ has_unsaved_changes = FALSE
    /\ working_copies = EmptyDict
    /\ github_token \in BOOLEAN
    /\ views = [u \in UsersTwo |-> ListView(remote, FALSE)]
    /\ last = Answer("start", "host", "ok", "none")
    /\ steps = 0

NextShared ==
    \/ \E u \in DOMAIN views, i \in 0..MaxRecords, net \in Net :
          Tick /\ handle_edit_service(u, i, net)
    \/ \E u \in DOMAIN views : \E typed \in TypedMain(views[u].form) :
          Tick /\ handle_add_update(u, typed)
    \/ \E u \in DOMAIN views, j \in 0..MaxUpdates : Tick /\ handle_delete_update(u, j)
    \/ \E u \in DOMAIN views, net \in Net : Tick /\ handle_back_to_list_from_service(u, net)
    \/ \E u \in DOMAIN views, i \in 0..MaxRecords : Tick /\ handle_delete_service(u, i)

SpecShared == InitShared /\ [][NextShared]_vars

-----------------------------------------------------------------------------
(* The bot was restarted with another AUTHORISED_USERS while a user, no     *)
(* longer in it, has the list open                                          *)

Revoked == "u3"

InitRevoked ==
    /\ global_statuses = None
    /\ original_statuses = None
    /\ has_unsaved_changes = FALSE
    /\ working_copies = EmptyDict
    /\ remote \in RemoteDocs
    /\ baseline_remote = <<>>
    /\ github_token \in BOOLEAN
    /\ \E doc \in RemoteDocs, dirty \in BOOLEAN :
          views = [u \in {Revoked} |-> ListView(doc, dirty)]
    /\ last = Answer("start", "host", "ok", "none")
    /\ steps = 0

SpecRevoked == InitRevoked /\ [][Next]_vars

-----------------------------------------------------------------------------
(* has_changes() on lists that differ in one respect each *)

RA2 == [RA EXCEPT !.updates = <<[date |-> D1, details |-> "ongoing"],
                                [date |-> D1, details |-> "fixed"]>>]
RA2rev == [RA EXCEPT !.updates = <<[date |-> D1, details |-> "fixed"],
                                   [date |-> D1, details |-> "ongoing"]>>]
RAurl == [RA EXCEPT !.updates = <<[date |-> D1, details |-> "ongoing", url |-> GoodUrl]>>]
RAres == [RA EXCEPT !.status = "Resolved"]

CompareLists ==
    {<<>>, <<RA>>, <<RB>>, <<RA, RB>>, <<RB, RA>>, <<RA2>>, <<RA2rev>>, <<RAurl>>,
     <<RAres>>}

\* a list was loaded and then edited: the list and the baseline are any two
\* of the lists
InitCompare ==
    /\ \E l \in CompareLists : global_statuses = Some(l)
    /\ \E l \in CompareLists :
          original_statuses = DeepCopy(l) /\ remote = l /\ baseline_remote = l
    /\ has_unsaved_changes = TRUE
    /\ working_copies = EmptyDict
    /\ github_token \in BOOLEAN
    /\ views = [u \in Users |-> NoView]
    /\ last = Answer("start", "host", "ok", "none")
    /\ steps = 0

NextCompare ==
    \/ \E u \in DOMAIN views, net \in Net : Tick /\ open_edit_modal(u, net)
    \/ \E u \in DOMAIN views, github \in GitHub : Tick /\ handle_submit_changes(u, github)

SpecCompare == InitCompare /\ [][NextCompare]_vars

-----------------------------------------------------------------------------
(* Submission of a form with many updates *)

\* a service with the updates "0", "1", ..., in this order
LongService(n) ==
    [RA EXCEPT !.updates = [j \in 1..n |-> [date |-> D1, details |-> ToString(j - 1)]]]

\* the detail view of a draft that add-update has been pressed on until it
\* has n updates: of service 0 of the list, or of a new service
InitOrder ==
    /\ \E n \in 1..ManyUpdates, kind \in {"edit", "add"} :
          LET idx == IF kind = "edit" THEN 0 ELSE -1 IN
          /\ working_copies = DictPut(EmptyDict, idx, LongService(n))
          /\ views = [u \in Users |-> DetailView(kind, idx, LongService(n))]
          /\ remote \in (IF kind = "edit" THEN {<<RA>>, <<RA, RB>>} ELSE {<<>>, <<RA>>})
    /\ global_statuses = Some(remote)
    /\ original_statuses = DeepCopy(remote)
    /\ baseline_remote = remote
    /\ has_unsaved_changes = FALSE
    /\ github_token \in BOOLEAN
    /\ last = Answer("start", "host", "ok", "none")
    /\ steps = 0

\* the form is submitted with the values it shows
NextOrder ==
    \/ \E u \in DOMAIN views, trigger_id \in BOOLEAN :
          Tick /\ handle_edit_service_submission(u, ShownForm(views[u]), trigger_id)
    \/ \E u \in DOMAIN views, trigger_id \in BOOLEAN :
          Tick /\ handle_add_service_submission(u, ShownForm(views[u]), trigger_id)

SpecOrder == InitOrder /\ [][NextOrder]_vars

-----------------------------------------------------------------------------
(* Properties *)

SubmissionOps == {"handle_edit_service_submission", "handle_add_service_submission"}

DraftOps ==
    {"handle_edit_service", "handle_add_service", "handle_add_update",
     "handle_delete_update", "handle_back_to_list_from_service"}

\* the list original_statuses holds
Baseline == Deref(original_statuses, global_statuses)

\* C1: right after a publish in which both GitHub requests succeeded, the
\* baseline equals the current list and has_changes() is false.
C1_PublishRebasesBaseline ==
    (last.op = "handle_submit_changes" /\ last.result = "ok")
        => (original_statuses.some /\ Baseline = global_statuses.val /\ ~has_changes)

\* C2: a form submission that finds a validation error changes neither the
\* list, nor the baseline, nor any draft, and leaves the form open.
C2_FailedCommitChangesNothing ==
    [][(last'.op \in SubmissionOps /\ last'.errors # EmptyDict)
          => /\ last'.result = "errors"
             /\ UNCHANGED <<global_statuses, original_statuses, working_copies, views>>]_vars

C2_Witness ==
    /\ last.op \in SubmissionOps
    /\ last.result = "errors"
    /\ global_statuses.some
    /\ views[last.user].idx \in DOMAIN working_copies
    /\ Len(working_copies[views[last.user].idx].updates) > 0

\* C3: a stored submission of the form whose key is -1 (a service being
\* created) appends the record: the list grows by one and the records that
\* were there keep their place and content.
C3_CreateAppends ==
    [][(last'.op \in SubmissionOps /\ last'.result = "stored"
        /\ views[last'.user].idx = -1)
          => /\ Len(global_statuses'.val) = Len(global_statuses.val) + 1
             /\ SubSeq(global_statuses'.val, 1, Len(global_statuses.val))
                  = global_statuses.val]_vars

\* C4 as claimed: opening a service, opening the new-service form, adding or
\* deleting an update, and going back to the list never change the list or
\* the baseline.
C4_DraftOpsNeverTouchList ==
    [][last'.op \in DraftOps
          => UNCHANGED <<global_statuses, original_statuses>>]_vars

\* C4 as amended: once global_statuses is set these handlers change neither
\* the list nor the baseline, and has_changes() is the same before and after
\* each of them in every case (before the first successful load, opening a
\* service or going back to the list runs the pending load).
C4_DraftIsolation ==
    [][last'.op \in DraftOps
          => /\ global_statuses.some
                  => UNCHANGED <<global_statuses, original_statuses>>
             /\ HasChangesOf(global_statuses', original_statuses') = has_changes]_vars

C4_Witness ==
    /\ last.op = "handle_back_to_list_from_service"
    /\ has_changes
    /\ views[last.user].rows > 0

\* C5: from a clean state, editing a service and submitting a form whose
\* values are those the service has (the form as shown) leaves has_changes()
\* false.
C5_UnchangedCommitIsClean ==
    [][(/\ last'.op = "handle_edit_service_submission"
        /\ last'.result = "stored"
        /\ original_statuses.some /\ global_statuses.some
        /\ ~has_changes
        /\ LET view == views[last'.user] IN
           /\ view.idx >= 0
           /\ view.idx < Len(global_statuses.val)
           /\ view.form = create_service_detail_blocks(global_statuses.val[view.idx + 1])
           /\ last'.typed = ShownForm(view))
          => ~HasChangesOf(global_statuses', original_statuses')]_vars

\* the blocks of a submission whose value is invalid, each field on its own
InvalidBlocks(typed) ==
    (IF validate_date_format(typed.main.date).ok THEN {} ELSE {Block("service_date")})
    \cup (IF typed.main.name = "" THEN {Block("service_name")} ELSE {})
    \cup (IF typed.main.summary = "" THEN {Block("service_summary")} ELSE {})
    \cup (IF typed.updates = <<>> THEN {Block("service_summary")} ELSE {})
    \cup {UpdateBlock("update_date", j - 1) : j \in
            {k \in 1..Len(typed.updates) : ~validate_date_format(typed.updates[k].date).ok}}
    \cup {UpdateBlock("update_url", j - 1) : j \in
            {k \in 1..Len(typed.updates) : ~validate_url(typed.updates[k].url).ok}}

\* C6: a submission that fails validation is answered with an error for
\* every invalid field, not only the first.
C6_EveryInvalidFieldReported ==
    (last.op \in SubmissionOps /\ last.result = "errors")
        => InvalidBlocks(last.typed) \subseteq DOMAIN last.errors

\* C7: when the remote document is no longer the one the baseline was read
\* from, a publish does not succeed and does not overwrite the remote.
C7_PublishDetectsRemoteChange ==
    [][(/\ last'.op = "handle_submit_changes"
        /\ original_statuses.some
        /\ remote # baseline_remote)
          => (last'.result # "ok" /\ remote' = remote)]_vars

\* C8: when a load fails the baseline stays as it was and the list shown
\* afterwards is empty.
C8_FailedLoadShowsEmptyList ==
    [][last'.load = "fail"
          => /\ original_statuses' = original_statuses
             /\ last'.listed # -1 => last'.listed = 0]_vars

\* C9: right after a successful load the list and the baseline both equal
\* the document fetched, the baseline is a separate copy, and has_changes()
\* is false.
C9_LoadSetsListAndBaseline ==
    last.load = "ok"
        => /\ global_statuses.some /\ global_statuses.val = remote
           /\ original_statuses.some /\ original_statuses.val = remote
           /\ ~original_statuses.alias
           /\ ~has_changes

C9_Witness ==
    /\ last.load = "ok"
    /\ Len(global_statuses.val) = 2
    /\ last.op = "handle_reset_changes"

\* C10: a publish asked for while has_changes() is false answers that there
\* is nothing to submit, makes no request to GitHub and changes nothing.
C10_NothingToPublish ==
    [][(last'.op = "handle_submit_changes" /\ ~has_changes)
          => /\ last'.result = "no_changes"
             /\ last'.gets = 0 /\ last'.puts = 0
             /\ UNCHANGED <<global_statuses, original_statuses, working_copies, remote,
                            views>>]_vars

C10_Witness ==
    /\ last.op = "handle_submit_changes"
    /\ last.result = "no_changes"
    /\ global_statuses.some /\ original_statuses.some
    /\ has_unsaved_changes

PublishFailures == {"no_token", "exception", "get_failed", "put_failed"}

\* C11: a publish that fails (no token, the GET fails or raises, the PUT is
\* refused) leaves the list, the baseline, the flag and has_changes() as they
\* were, and has sent at most one PUT.
C11_FailedPublishChangesNothing ==
    [][(last'.op = "handle_submit_changes" /\ last'.result \in PublishFailures)
          => /\ UNCHANGED <<global_statuses, original_statuses, has_unsaved_changes>>
             /\ HasChangesOf(global_statuses', original_statuses') = has_changes
             /\ last'.puts <= 1]_vars

C11_Witness ==
    /\ last.op = "handle_submit_changes"
    /\ last.result = "put_failed"
    /\ has_changes
    /\ has_unsaved_changes

\* C12: a stored submission of the edit form of service key, 0 <= key <
\* len(list), replaces the record at key by the record built from the form;
\* the list keeps its length and every other record.
C12_EditCommitReplacesOneRecord ==
    [][(/\ last'.op = "handle_edit_service_submission"
        /\ last'.result = "stored"
        /\ last'.index >= 0)
          => LET key == last'.index
                 old == global_statuses.val
                 new == global_statuses'.val
             IN
             /\ key < Len(old)
             /\ Len(new) = Len(old)
             /\ \A k \in 1..Len(old) : k # key + 1 => new[k] = old[k]
             /\ new[key + 1].affectedServices = last'.typed.main.name
             /\ new[key + 1].status = last'.typed.main.status.text
             /\ new[key + 1].date = last'.typed.main.date
             /\ new[key + 1].summary = last'.typed.main.summary
             /\ Len(new[key + 1].updates) = Len(last'.typed.updates)
             /\ \A j \in 1..Len(last'.typed.updates) :
                   /\ new[key + 1].updates[j].date = last'.typed.updates[j].date
                   /\ new[key + 1].updates[j].details = last'.typed.updates[j].details]_vars

C12_Witness ==
    /\ last.op = "handle_edit_service_submission"
    /\ last.result = "stored"
    /\ last.index = 0
    /\ Len(global_statuses.val) = 2
    /\ global_statuses.val[1].affectedServices = last.typed.main.name
    /\ global_statuses.val[1] # RA
    /\ global_statuses.val[2] = RB

\* C13: after a stored submission of the edit form of service key whose
\* record differs from the baseline's record at key, the list holds the new
\* record at key and has_changes() is true.
C13_ChangedCommitIsDirty ==
    [][(/\ last'.op = "handle_edit_service_submission"
        /\ last'.result = "stored"
        /\ last'.index >= 0
        /\ original_statuses.some
        /\ last'.index < Len(Baseline)
        /\ ValidateSubmission(last'.typed).service # Baseline[last'.index + 1])
          => /\ global_statuses'.val[last'.index + 1]
                  = ValidateSubmission(last'.typed).service
             /\ HasChangesOf(global_statuses', original_statuses')]_vars

C13_Witness ==
    /\ last.op = "handle_edit_service_submission"
    /\ last.result = "stored"
    /\ last.index = 0
    /\ original_statuses.some
    /\ Len(Baseline) = Len(global_statuses.val)
    /\ Baseline[1].status = "Down"
    /\ global_statuses.val[1] = [Baseline[1] EXCEPT !.status = "Resolved"]
    /\ has_changes

\* the index of a delete button is a valid index of the list
ValidDelete(index) ==
    global_statuses.some /\ 0 <= index /\ index < Len(global_statuses.val)

\* C14: deleting service i, a valid index, shortens the list by one, keeps
\* the records before i and moves each record after i one place down,
\* unchanged.
C14_DeleteShiftsRecords ==
    [][(last'.op = "handle_delete_service" /\ ValidDelete(last'.index))
          => LET i == last'.index
                 old == global_statuses.val
                 new == global_statuses'.val
             IN
             /\ last'.result = "ok"
             /\ Len(new) = Len(old) - 1
             /\ \A k \in 1..Len(new) : new[k] = IF k <= i THEN old[k] ELSE old[k + 1]]_vars

C14_Witness ==
    /\ last.op = "handle_delete_service"
    /\ last.result = "ok"
    /\ last.index = 0
    /\ global_statuses.val = <<RB>>

\* C15: deleting a service at an index that is not a valid index of the list
\* is answered with an error and changes neither the list nor any draft.
C15_DeleteOutOfRange ==
    [][(last'.op = "handle_delete_service" /\ ~ValidDelete(last'.index))
          => /\ last'.result = "exception"
             /\ last'.reply = "error"
             /\ UNCHANGED <<global_statuses, working_copies>>]_vars

C15_Witness ==
    /\ last.op = "handle_delete_service"
    /\ last.result = "exception"
    /\ global_statuses.some
    /\ global_statuses.val # <<>>
    /\ last.index >= Len(global_statuses.val)

\* C16: deleting service i removes the draft kept under i and leaves every
\* other draft under its key with its content, also those under keys above i.
C16_DeleteKeepsOtherDrafts ==
    [][(last'.op = "handle_delete_service" /\ last'.result = "ok")
          => /\ last'.index \notin DOMAIN working_copies'
             /\ DOMAIN working_copies' = (DOMAIN working_copies) \ {last'.index}
             /\ \A k \in DOMAIN working_copies' :
                   working_copies'[k] = working_copies[k]]_vars

C16_Witness ==
    /\ last.op = "handle_delete_service"
    /\ last.result = "ok"
    /\ \E k \in DOMAIN working_copies : k > last.index

\* the updates of the draft kept under key, or of the service at key when no
\* draft is kept (a new service without a draft has none)
DraftUpdates(key) ==
    IF key \in DOMAIN working_copies THEN working_copies[key].updates
    ELSE IF key >= 0 /\ global_statuses.some /\ key < Len(global_statuses.val)
         THEN global_statuses.val[key + 1].updates
         ELSE <<>>

\* a draft is kept under key, or key is a valid index of the list
HasDraftOrRecord(key) ==
    \/ key \in DOMAIN working_copies
    \/ key >= 0 /\ global_statuses.some /\ key < Len(global_statuses.val)

\* C17: deleting update j of a draft, j a valid index of its updates, shortens
\* the updates by one: the update at j goes, and the others keep their order
\* and content.
C17_DeleteUpdateRemovesOne ==
    [][(/\ last'.op = "handle_delete_update"
        /\ HasDraftOrRecord(views[last'.user].idx)
        /\ last'.index < Len(DraftUpdates(views[last'.user].idx)))
          => LET key == views[last'.user].idx
                 j == last'.index
                 before == DraftUpdates(key)
             IN
             /\ last'.result = "ok"
             /\ key \in DOMAIN working_copies'
             /\ Len(working_copies'[key].updates) = Len(before) - 1
             /\ \A k \in 1..(Len(before) - 1) :
                   working_copies'[key].updates[k]
                      = IF k <= j THEN before[k] ELSE before[k + 1]]_vars

C17_Witness ==
    /\ last.op = "handle_delete_update"
    /\ last.result = "ok"
    /\ last.index = 0
    /\ views[last.user].idx \in DOMAIN working_copies
    /\ working_copies[views[last.user].idx].updates = <<NewUpdate>>

\* C18: deleting update j of a draft that has j updates or fewer (a key
\* without a draft has the updates of its record, a new service without a
\* draft has none) is answered with an error and leaves the drafts as they
\* were: no update is removed and no draft is stored under a key that had
\* none.
C18_DeleteUpdateOutOfRange ==
    [][(/\ last'.op = "handle_delete_update"
        /\ last'.index >= Len(DraftUpdates(views[last'.user].idx)))
          => /\ last'.result \in {"not_found", "exception"}
             /\ last'.reply = "error"
             /\ UNCHANGED working_copies]_vars

\* C19: adding an update to a draft appends one empty update: the updates the
\* draft had keep their order and content, for a service of the list and for
\* a new service alike.
C19_AddUpdateAppendsOne ==
    [][(last'.op = "handle_add_update" /\ last'.result = "ok")
          => LET key == views[last'.user].idx IN
             /\ key \in DOMAIN working_copies'
             /\ working_copies'[key].updates = Append(DraftUpdates(key), NewUpdate)
             /\ \A k \in DOMAIN working_copies' \ {key} :
                   k \in DOMAIN working_copies /\ working_copies'[k] = working_copies[k]]_vars

C19_Witness ==
    /\ last.op = "handle_add_update"
    /\ last.result = "ok"
    /\ views[last.user].idx = -1
    /\ Len(working_copies[-1].updates) = 2

C21_NewEditStartsFromRecord ==
    [][/\ (/\ last.op = "handle_edit_service" /\ last.result = "ok"
           /\ last'.op \in {"handle_add_update", "handle_delete_update"}
           /\ last'.user = last.user
           /\ last'.result = "ok")
            => /\ last.index \in DOMAIN working_copies'
               /\ working_copies'[last.index]
                    = [global_statuses.val[last.index + 1] EXCEPT !.updates =
                         IF last'.op = "handle_add_update"
                         THEN Append(@, NewUpdate)
                         ELSE Pop(@, last'.index)]
       /\ (/\ last.op = "handle_add_service"
           /\ last'.op = "handle_add_update"
           /\ last'.user = last.user
           /\ last'.result = "ok")
            => /\ -1 \in DOMAIN working_copies'
               /\ working_copies'[-1].updates = <<NewUpdate>>]_vars

C21_Witness ==
    /\ last.op = "handle_delete_update"
    /\ last.result = "ok"
    /\ views[last.user].idx = 1
    /\ has_changes
    /\ 1 \in DOMAIN working_copies
    /\ working_copies[1] = [global_statuses.val[2] EXCEPT !.updates = <<>>]

\* C22: after a stored submission no draft is kept under the key of the
\* form, for a service of the list and for a new service alike, and the
\* drafts under the other keys are as they were.
C22_CommitDropsDraft ==
    [][(last'.op \in SubmissionOps /\ last'.result = "stored")
          => /\ DOMAIN working_copies' = (DOMAIN working_copies) \ {last'.index}
             /\ \A k \in DOMAIN working_copies' :
                   working_copies'[k] = working_copies[k]]_vars

C22_Witness ==
    /\ last.op \in SubmissionOps
    /\ last.result = "stored"
    /\ working_copies # EmptyDict
    /\ last.index \notin DOMAIN working_copies

\* the record a stored submission has written: at the key of the edit form
\* (a Python index), or at the end of the list
Written ==
    IF last.op = "handle_edit_service_submission"
    THEN global_statuses.val[PyPos(global_statuses.val, last.index)]
    ELSE global_statuses.val[Len(global_statuses.val)]

\* C23: the record a stored submission writes into the list has at least one
\* update.
C23_WrittenRecordHasUpdate ==
    (last.op \in SubmissionOps /\ last.result = "stored")
        => Len(Written.updates) >= 1

C23_Witness ==
    /\ last.op = "handle_add_service_submission"
    /\ last.result = "stored"
    /\ Len(Written.updates) = 2

\* C24: a submission without updates is answered with errors among which is
\* "At least one update is required", whatever the other fields hold.
C24_NoUpdatesIsReported ==
    (last.op \in SubmissionOps /\ last.typed.updates = <<>>)
        => /\ last.result = "errors"
           /\ \E b \in DOMAIN last.errors :
                 last.errors[b] = "At least one update is required"

\* C25: every update of the record a stored submission writes has a valid
\* date and details that are not empty.
C25_WrittenUpdatesAreFilled ==
    (last.op \in SubmissionOps /\ last.result = "stored")
        => \A j \in 1..Len(Written.updates) :
              /\ validate_date_format(Written.updates[j].date).ok
              /\ Written.updates[j].details # ""

\* C27: after a reset no draft is kept; when its reload succeeded the list
\* is the document fetched and has_changes() is false.
C27_ResetDiscardsEverything ==
    [][last'.op = "handle_reset_changes"
          => /\ working_copies' = EmptyDict
             /\ last'.load = "ok"
                  => /\ global_statuses'.some
                     /\ global_statuses'.val = remote'
                     /\ ~HasChangesOf(global_statuses', original_statuses')
                     /\ last'.listed = Len(remote')]_vars

C27_Witness ==
    /\ last.op = "handle_reset_changes"
    /\ last.load = "ok"
    /\ working_copies = EmptyDict
    /\ global_statuses.val = <<RA>>
    /\ last.listed = 1

\* C30: a submission that is answered with an error message has changed
\* neither the list nor the drafts.
C30_ErrorMeansNoMutation ==
    [][(last'.op \in SubmissionOps /\ last'.reply = "error")
          => UNCHANGED <<global_statuses, working_copies>>]_vars

\* C26: with the list and the baseline both loaded, has_changes() is true
\* exactly when the two differ in a field, in the number of records, in the
\* order of the records or in the order of the updates of a record; the list
\* view shows the reset button accordingly.
C26_HasChangesIsStructural ==
    (global_statuses.some /\ original_statuses.some)
        => /\ has_changes <=> (global_statuses.val # Baseline)
           /\ \A u \in DOMAIN views :
                 views[u].kind = "list" => (views[u].reset <=> (global_statuses.val # Baseline))

C26_Witness ==
    /\ global_statuses.val = <<RA2rev>>
    /\ Baseline = <<RA2>>
    /\ has_changes
    /\ \E u \in DOMAIN views : views[u].kind = "list" /\ views[u].reset

\* C28: a stored submission writes the updates in the order of the form:
\* update j of the record is update j of the form.
C28_UpdatesKeepFormOrder ==
    (last.op \in SubmissionOps /\ last.result = "stored")
        => /\ Len(Written.updates) = Len(last.typed.updates)
           /\ \A j \in 1..Len(Written.updates) :
                 Written.updates[j].details = last.typed.updates[j].details

\* C29: a stored submission of the edit form of service key, key >= 0,
\* replaces the record the form was opened on, also when another user has
\* deleted a service in between.
C29_CommitReplacesTheRecordEdited ==
    [][(/\ last'.op = "handle_edit_service_submission"
        /\ last'.result = "stored"
        /\ last'.index >= 0)
          => views[last'.user].form.name
                = global_statuses.val[last'.index + 1].affectedServices]_vars

\* C31: opening the detail view of a service at an index that is not a valid
\* index of the loaded list fails and changes neither the list nor the
\* drafts, a draft left under that index included.
C31_EditOutOfRangeChangesNothing ==
    [][(/\ last'.op = "handle_edit_service"
        /\ global_statuses.some
        /\ last'.index >= Len(global_statuses.val))
          => /\ last'.result = "exception"
             /\ UNCHANGED <<global_statuses, working_copies>>]_vars

C33_OnlyAuthorisedUsersChangeState ==
    [][(last'.user \in DOMAIN views /\ last'.user \notin AUTHORISED_USERS)
          => /\ global_statuses.some => global_statuses' = global_statuses
             /\ working_copies' = working_copies
             /\ remote' = remote
             /\ last'.puts = 0]_vars

\* C34: the baseline is never changed by the operations on the list and the
\* drafts: apart from a restart of the process, original_statuses changes
\* only in a step that loaded the document successfully or published it
\* successfully, and then it is replaced as a whole.
C34_BaselineChangesOnlyOnLoadOrPublish ==
    [][(/\ last'.op # "restart"
        /\ last'.load # "ok"
        /\ ~(last'.op = "handle_submit_changes" /\ last'.result = "ok"))
          => /\ original_statuses'.some = original_statuses.some
             /\ Deref(original_statuses', global_statuses') = Baseline]_vars

C34_Witness ==
    /\ last.op \in SubmissionOps \cup {"handle_delete_service", "handle_delete_update"}
    /\ last.load = "none"
    /\ original_statuses.some
    /\ global_statuses.some
    /\ Baseline = baseline_remote
    /\ Baseline # global_statuses.val

\* C35: the document a successful publish writes is the list global_statuses
\* holds at that moment; no draft in working_copies is part of it.
C35_PublishWritesTheList ==
    [][(last'.op = "handle_submit_changes" /\ last'.result = "ok")
          => /\ remote' = global_statuses.val
             /\ global_statuses' = global_statuses]_vars

C35_Witness ==
    /\ last.op = "handle_submit_changes"
    /\ last.result = "ok"
    /\ remote = global_statuses.val
    /\ \E k \in DOMAIN working_copies :
          k >= 0 /\ k < Len(remote) /\ working_copies[k] # remote[k + 1]

\* C36: submitting the edit form of an index that is at or beyond the end of
\* the list fails: the list is left as it is, nothing is appended and no
\* record is overwritten.
C36_CommitBeyondTheListFails ==
    [][(/\ last'.op = "handle_edit_service_submission"
        /\ global_statuses.some
        /\ last'.index >= Len(global_statuses.val))
          => /\ last'.result \in {"errors", "exception"}
             /\ global_statuses' = global_statuses]_vars

C36_Witness ==
    /\ last.op = "handle_edit_service_submission"
    /\ last.result = "exception"
    /\ last.reply = "error"
    /\ global_statuses.some
    /\ last.index >= Len(global_statuses.val)

\* C37: with two users on the modal, the draft of the new service (key -1)
\* never holds a copy of a service of the list.
C37_NewDraftIsNeverARecord ==
    (-1 \in DOMAIN working_copies)
        => working_copies[-1].affectedServices
              \notin {RA.affectedServices, RB.affectedServices}

\* C38: as long as no load has succeeded in this process, every operation
\* that lists the services attempts the load again.
C38_ListingRetriesTheLoad ==
    [][(last'.listed >= 0 /\ ~original_statuses.some) => last'.load # "none"]_vars

\* C39: while no load has succeeded (original_statuses is None) has_changes()
\* is false, and Submit Changes answers that there is nothing to submit
\* without a request to GitHub.
C39_NoBaselineNothingToPublish ==
    /\ ~original_statuses.some => ~has_changes
    /\ (last.op = "handle_submit_changes" /\ ~original_statuses.some)
          => (last.result = "no_changes" /\ last.gets = 0 /\ last.puts = 0)

C39_Witness ==
    /\ last.op = "handle_submit_changes"
    /\ last.result = "no_changes"
    /\ global_statuses.some
    /\ ~original_statuses.some

====
